---- MODULE Spec2Model ----
(***************************************************************************)
(* Model of scr/cleaning.py: clean_immo_data, the cleaning pipeline of the *)
(* Immo Eliza listings table.                                              *)
(*                                                                         *)
(* A DataFrame is a record [columns, rows]: the set of column names and    *)
(* the sequence of rows, each row carrying its index label (idx) and one   *)
(* cell per column.  A cell is a missing value (NaN), a text (a sequence   *)
(* of one-character strings), a number (an exact fraction <<n, d>>) or an  *)
(* infinity (the float a division by zero yields).  A column has dtype     *)
(* object exactly when it holds a text: the tables modelled are those      *)
(* read_csv produces, whose columns are numeric or text, never mixed.      *)
(*                                                                         *)
(* The pipeline is one state machine: pc names the next statement block of *)
(* clean_immo_data, df is the local frame, input the argument.            *)
(*                                                                         *)
(* Series.astype(str) depends on the installed pandas: before 3.0 a        *)
(* missing value becomes the text "nan", from 3.0 on it stays missing.     *)
(* The source pins no version, so nanAsText is chosen freely at the start  *)
(* and both outcomes are explored.                                         *)
(*                                                                         *)
(* Texts are drawn over digits, letters and the space: signs, decimal      *)
(* points, exponents and the spellings of infinity are left out, so a text *)
(* parses exactly when it is a run of digits.                              *)
(***************************************************************************)
EXTENDS Integers, Sequences, FiniteSets, TLC

VARIABLES
    input,      \* the df argument of clean_immo_data, never modified (line 21 copies it)
    df,         \* the local df of clean_immo_data
    pc,         \* the next statement block to run
    iqrBounds,  \* lower/upper of remove_outliers, per filtered column
    nanAsText   \* whether Series.astype(str) renders a missing value as the text "nan"

vars == <<input, df, pc, iqrBounds, nanAsText>>

\* ----------------------------------------------------------------- bounds

\* Longest table of the outlier profiles (an outlier needs four values).
MaxRows == 5
\* Longest table of the identifier profile (two pairs of missing identifiers).
MaxRowsIds == 4
\* Longest table of the other, wider profiles.
MaxRowsText == 3

\* ------------------------------------------------------------------ cells

NaN == [t |-> "nan", s |-> <<>>, q |-> <<0, 1>>]
Str(s) == [t |-> "str", s |-> s, q |-> <<0, 1>>]
Num(q) == [t |-> "num", s |-> <<>>, q |-> q]
Whole(n) == Num(<<n, 1>>)
Inf(sign) == [t |-> "inf", s |-> <<>>, q |-> <<sign, 1>>]

IsNa(c) == c.t = "nan"
NotNa(c) == c.t # "nan"

\* ------------------------------------------------- exact float arithmetic

Abs(n) == IF n < 0 THEN -n ELSE n

RECURSIVE GCD(_, _)
GCD(a, b) == IF b = 0 THEN a ELSE GCD(b, a % b)

\* The fraction n/d in lowest terms with a positive denominator (d # 0).
Frac(n, d) ==
    LET g == GCD(Abs(n), Abs(d))
        sgn == IF d < 0 THEN -1 ELSE 1
    IN <<(sgn * n) \div g, (sgn * d) \div g>>

RAdd(a, b) == Frac(a[1] * b[2] + b[1] * a[2], a[2] * b[2])
RSub(a, b) == Frac(a[1] * b[2] - b[1] * a[2], a[2] * b[2])
RMul(a, b) == Frac(a[1] * b[1], a[2] * b[2])
RLe(a, b) == a[1] * b[2] <= b[1] * a[2]
RFloor(a) == a[1] \div a[2]

\* Float arithmetic on cells: a missing operand gives a missing result.
Add(a, b) == IF IsNa(a) \/ IsNa(b) THEN NaN ELSE Num(RAdd(a.q, b.q))
Sub(a, b) == IF IsNa(a) \/ IsNa(b) THEN NaN ELSE Num(RSub(a.q, b.q))
Mul(a, b) == IF IsNa(a) \/ IsNa(b) THEN NaN ELSE Num(RMul(a.q, b.q))

\* Float true division (line 54): x/0 is +-inf, 0/0 is NaN, nothing raises.
Div(a, b) ==
    IF IsNa(a) \/ IsNa(b) THEN NaN
    ELSE IF b.q[1] = 0
         THEN (IF a.q[1] = 0 THEN NaN
               ELSE IF a.q[1] > 0 THEN Inf(1) ELSE Inf(-1))
         ELSE Num(Frac(a.q[1] * b.q[2], a.q[2] * b.q[1]))

\* ------------------------------------------------------------------ texts

Digits == <<"0", "1", "2", "3", "4", "5", "6", "7", "8", "9">>
IsDigit(c) == \E k \in 1..Len(Digits) : Digits[k] = c
DigitValue(c) == (CHOOSE k \in 1..Len(Digits) : Digits[k] = c) - 1

\* str.strip(): leading and trailing whitespace removed.
RECURSIVE LStrip(_)
LStrip(s) == IF s # <<>> /\ Head(s) = " " THEN LStrip(Tail(s)) ELSE s
RECURSIVE RStrip(_)
RStrip(s) ==
    IF s # <<>> /\ s[Len(s)] = " " THEN RStrip(SubSeq(s, 1, Len(s) - 1)) ELSE s
Strip(s) == RStrip(LStrip(s))

\* str(n) of a non-negative integer.
RECURSIVE IntToStr(_)
IntToStr(n) ==
    IF n < Len(Digits) THEN <<Digits[n + 1]>>
    ELSE IntToStr(n \div Len(Digits)) \o <<Digits[(n % Len(Digits)) + 1]>>

\* The value of a text of decimal digits.
RECURSIVE DecimalValue(_)
DecimalValue(s) ==
    IF s = <<>> THEN 0
    ELSE DecimalValue(SubSeq(s, 1, Len(s) - 1)) * Len(Digits) + DigitValue(s[Len(s)])

IsDecimal(s) == s # <<>> /\ \A k \in 1..Len(s) : IsDigit(s[k])

\* ------------------------------------------------------------ frame tools

Column(frame, col) == [i \in 1..Len(frame.rows) |-> frame.rows[i][col]]

SetColumn(frame, col, series) ==
    [columns |-> frame.columns \cup {col},
     rows |-> [i \in 1..Len(frame.rows) |->
                  [frame.rows[i] EXCEPT ![col] = series[i]]]]

\* The rows at the positions the boolean mask keep accepts, from i on, in order.
RECURSIVE FilterRows(_, _, _)
FilterRows(rows, keep, i) ==
    IF i > Len(rows) THEN <<>>
    ELSE (IF keep[i] THEN <<rows[i]>> ELSE <<>>) \o FilterRows(rows, keep, i + 1)

\* select_dtypes(include="object").columns (line 26).
ObjectColumns(frame) ==
    {col \in frame.columns :
        \E i \in 1..Len(frame.rows) : frame.rows[i][col].t = "str"}

\* ---------------------------------------------- 1. strip whitespace (26-27)

\* astype(str) of one value: a missing value becomes the text "nan" where
\* the installed pandas stringifies it, and stays missing where it does not.
AsTypeStr(c, asText) ==
    IF c.t = "str" THEN c
    ELSE IF c.t = "nan"
         THEN (IF asText THEN Str(<<"n", "a", "n">>) ELSE NaN)
         ELSE Str(IntToStr(c.q[1]))

\* .str.strip().replace({"": np.nan}) of one value.
StripCell(c, asText) ==
    LET x == AsTypeStr(c, asText)
    IN IF x.t = "str"
       THEN (IF Strip(x.s) = <<>> THEN NaN ELSE Str(Strip(x.s)))
       ELSE x

StripWhitespace(frame, asText) ==
    LET obj == ObjectColumns(frame)
    IN [frame EXCEPT !.rows =
          [i \in 1..Len(frame.rows) |->
              [f \in DOMAIN frame.rows[i] |->
                  IF f \in obj THEN StripCell(frame.rows[i][f], asText)
                  ELSE frame.rows[i][f]]]]

\* ---------------------------------------------- 2. remove duplicates (32)

\* Faulty variant: keep="last".
DropDuplicatesKeepLast(frame) ==
    [frame EXCEPT !.rows =
        FilterRows(frame.rows,
                   [i \in 1..Len(frame.rows) |-> \A j \in (i + 1)..Len(frame.rows) :
                       frame.rows[j].property_id # frame.rows[i].property_id],
                   1)]

\* Faulty variant: missing identifiers never equal one another.
DropDuplicatesNaDistinct(frame) ==
    [frame EXCEPT !.rows =
        FilterRows(frame.rows,
                   [i \in 1..Len(frame.rows) |-> \A j \in 1..(i - 1) :
                       \/ IsNa(frame.rows[i].property_id)
                       \/ frame.rows[j].property_id # frame.rows[i].property_id],
                   1)]

\* drop_duplicates(subset=["property_id"]): keep="first"; missing
\* identifiers hash alike, so they count as duplicates of one another.
DropDuplicates(frame) ==
    [frame EXCEPT !.rows =
        FilterRows(frame.rows,
                   [i \in 1..Len(frame.rows) |-> \A j \in 1..(i - 1) :
                       frame.rows[j].property_id # frame.rows[i].property_id],
                   1)]

\* ---------------------------------------------- 3. fix data types (37-43)

numeric_columns == {"price", "living_area", "number_rooms", "facades"}

\* pd.to_numeric(errors="coerce") of one value.
ToNumeric(c) ==
    IF c.t = "str"
    THEN (IF IsDecimal(c.s) THEN Whole(DecimalValue(c.s)) ELSE NaN)
    ELSE c

\* astype("Int64").astype(str) of one value of a numeric column: the missing
\* value pd.NA becomes the text "<NA>" where astype(str) stringifies missing
\* values, and stays missing where it does not.
PostalText(c, asText) ==
    IF IsNa(c) THEN (IF asText THEN Str(<<"<", "N", "A", ">">>) ELSE NaN)
    ELSE Str(IntToStr(c.q[1]))

FixDataTypes(frame, asText) ==
    [frame EXCEPT !.rows =
        [i \in 1..Len(frame.rows) |->
            [f \in DOMAIN frame.rows[i] |->
                IF f \in numeric_columns THEN ToNumeric(frame.rows[i][f])
                ELSE IF f = "postal_code" /\ "postal_code" \in frame.columns
                     THEN PostalText(frame.rows[i][f], asText)
                     ELSE frame.rows[i][f]]]]

\* ------------------------------------ 4. remove rows without province (48-49)

\* replace({"": np.nan}) of one value (line 48).
EmptyToNa(c) == IF c.t = "str" /\ c.s = <<>> THEN NaN ELSE c

ProvinceFilter(frame) ==
    LET rep == SetColumn(frame, "province",
                         [i \in 1..Len(frame.rows) |->
                             EmptyToNa(frame.rows[i].province)])
    IN [rep EXCEPT !.rows =
          FilterRows(rep.rows, [i \in 1..Len(rep.rows) |-> NotNa(rep.rows[i].province)], 1)]

\* ------------------------------------------ 5. compute price_per_m2 (54)

\* Faulty variant: the operands swapped.
ComputeAreaPerPrice(frame) ==
    SetColumn(frame, "price_per_m2",
              [i \in 1..Len(frame.rows) |->
                  Div(frame.rows[i].living_area, frame.rows[i].price)])

ComputePricePerM2(frame) ==
    SetColumn(frame, "price_per_m2",
              [i \in 1..Len(frame.rows) |->
                  Div(frame.rows[i].price, frame.rows[i].living_area)])

\* ------------------------------------------ 6. remove outliers (59-71)

\* The non-missing values of a series, as fractions, in series order.
RECURSIVE Values(_, _)
Values(series, i) ==
    IF i > Len(series) THEN <<>>
    ELSE (IF NotNa(series[i]) THEN <<series[i].q>> ELSE <<>>)
         \o Values(series, i + 1)

RECURSIVE Insert(_, _)
Insert(x, sorted) ==
    IF sorted = <<>> THEN <<x>>
    ELSE IF RLe(x, Head(sorted)) THEN <<x>> \o sorted
         ELSE <<Head(sorted)>> \o Insert(x, Tail(sorted))

RECURSIVE Sort(_)
Sort(s) == IF s = <<>> THEN <<>> ELSE Insert(Head(s), Sort(Tail(s)))

\* Series.quantile(p), interpolation="linear", over the non-missing values:
\* the value at position (n-1)*p of the sorted values, interpolated between
\* the two neighbours; NaN when there is no value.
Quantile(series, p) ==
    LET v == Sort(Values(series, 1))
        n == Len(v)
        pos == RMul(<<n - 1, 1>>, p)
        lo == RFloor(pos)
        hi == IF lo + 1 < n THEN lo + 1 ELSE lo
        w == RSub(pos, <<lo, 1>>)
    IN IF n = 0 THEN NaN
       ELSE Num(RAdd(v[lo + 1], RMul(RSub(v[hi + 1], v[lo + 1]), w)))

\* Faulty variant: inclusive="neither".
BetweenExclusive(c, lower, upper) ==
    /\ NotNa(c) /\ NotNa(lower) /\ NotNa(upper)
    /\ ~ RLe(c.q, lower.q)
    /\ ~ RLe(upper.q, c.q)

\* Series.between(lower, upper), inclusive="both"; False for a missing value
\* and for missing bounds.
Between(c, lower, upper) ==
    /\ NotNa(c) /\ NotNa(lower) /\ NotNa(upper)
    /\ RLe(lower.q, c.q)
    /\ RLe(c.q, upper.q)

\* q1, q3, iqr, lower and upper of remove_outliers (lines 60-64).
IqrBounds(series) ==
    LET q1 == Quantile(series, <<1, 4>>)
        q3 == Quantile(series, <<3, 4>>)
        iqr == Sub(q3, q1)
    IN [lower |-> Sub(q1, Mul(Num(<<3, 2>>), iqr)),
        upper |-> Add(q3, Mul(Num(<<3, 2>>), iqr))]

\* series.where(series.between(lower, upper)) (line 65).
Where(series, lower, upper) ==
    [i \in 1..Len(series) |->
        IF Between(series[i], lower, upper) THEN series[i] ELSE NaN]

remove_outliers(series) ==
    LET b == IqrBounds(series) IN Where(series, b.lower, b.upper)

\* Faulty variant: the outlier rows are dropped as soon as a column is filtered.
FilterColumnDropRows(frame, col) ==
    LET b == IqrBounds(Column(frame, col))
    IN [frame EXCEPT !.rows =
          FilterRows(frame.rows,
                     [i \in 1..Len(frame.rows) |-> Between(frame.rows[i][col], b.lower, b.upper)],
                     1)]

\* df[col] = remove_outliers(df[col]) (lines 67, 68).
FilterColumn(frame, col) == SetColumn(frame, col, remove_outliers(Column(frame, col)))

\* Faulty variant: how="all", a row goes only when every column of subset is null.
DropNaHowAll(frame, subset) ==
    [frame EXCEPT !.rows =
        FilterRows(frame.rows,
                   [i \in 1..Len(frame.rows) |-> \E col \in subset : NotNa(frame.rows[i][col])],
                   1)]

\* Faulty variant: no subset, a row goes when any of its columns is null.
DropNaAnyColumn(frame, subset) ==
    [frame EXCEPT !.rows =
        FilterRows(frame.rows,
                   [i \in 1..Len(frame.rows) |-> \A col \in frame.columns : NotNa(frame.rows[i][col])],
                   1)]

\* df.dropna(subset=[...]) (line 71).
DropNa(frame, subset) ==
    [frame EXCEPT !.rows =
        FilterRows(frame.rows,
                   [i \in 1..Len(frame.rows) |-> \A col \in subset : NotNa(frame.rows[i][col])],
                   1)]

\* ------------------------------------------------------------ the pipeline

\* The frame as it stands before the outlier filters (lines 21-54).
Prepared(frame, asText) ==
    ComputePricePerM2(ProvinceFilter(FixDataTypes(DropDuplicates(
        StripWhitespace(frame, asText)), asText)))

\* clean_immo_data as a function of its argument.
clean_immo_data(frame, asText) ==
    DropNa(FilterColumn(FilterColumn(Prepared(frame, asText), "price"),
                        "living_area"),
           {"price", "living_area"})

\* ------------------------------------------------------------------ inputs

InputColumns ==
    {"property_id", "price", "living_area", "number_rooms", "facades", "province"}

Liege == Str(<<"L">>)
Blank == Str(<<" ">>)
T100 == Str(<<"1", "0", "0">>)

\* The cells of one drawn row; the columns a profile does not vary are fixed.
Cells(id, price, area, province) ==
    [property_id |-> id, price |-> price, living_area |-> area,
     number_rooms |-> Whole(3), facades |-> Whole(2),
     province |-> province, postal_code |-> NaN]

\* A profile is the set of rows a generated table draws from, and its longest
\* table.  numbered: the identifiers are the row numbers (a numeric id
\* column); postal: the table has a postal_code column.

\* The four prices of the outlier example, in thousands.
ProfileOutliers ==
    [maxRows |-> MaxRows, numbered |-> TRUE, postal |-> FALSE,
     rows |-> {Cells(NaN, Whole(p), Whole(10), Liege) : p \in {100, 105, 110, 1000}}]

\* Outliers of either column next to duplicates and rows without province.
ProfileOrder ==
    [maxRows |-> MaxRows, numbered |-> FALSE, postal |-> FALSE,
     rows |-> {Cells(Str(<<"A">>), Whole(1000), Whole(50), Liege),
               Cells(Str(<<"B">>), Whole(100), Whole(50), Liege),
               Cells(Str(<<"C">>), Whole(100), Whole(10), Liege),
               Cells(Str(<<"D">>), Whole(100), Whole(50), Liege),
               Cells(Str(<<"A">>), Whole(100), Whole(10), Blank)}]

\* Missing and zero operands of the ratio.
ProfileRatio ==
    [maxRows |-> MaxRowsText, numbered |-> TRUE, postal |-> FALSE,
     rows |-> {Cells(NaN, p, a, Liege) :
                  p \in {NaN, Whole(0), Whole(100)},
                  a \in {NaN, Whole(0), Whole(10)}}]

\* Identifiers: missing, padded, blank, repeated.
ProfileIds ==
    [maxRows |-> MaxRowsIds, numbered |-> FALSE, postal |-> FALSE,
     rows |-> {Cells(id, Whole(100), Whole(10), Liege) :
                  id \in {NaN, Str(<<"A">>), Str(<<" ", "A">>), Str(<<"B">>), Blank}}]

\* Provinces: missing, padded, empty, blank; postal codes present.
ProfileProvince ==
    [maxRows |-> MaxRowsText, numbered |-> TRUE, postal |-> TRUE,
     rows |-> {[Cells(NaN, Whole(100), Whole(10), pr) EXCEPT !.postal_code = po] :
                  pr \in {NaN, Liege, Str(<<" ", "L", " ">>), Str(<<>>), Blank},
                  po \in {Whole(1000), NaN}}]

\* Repeated identifiers whose first row lacks a province or a price.
ProfileMixed ==
    [maxRows |-> MaxRowsText, numbered |-> FALSE, postal |-> FALSE,
     rows |-> {Cells(id, p, Whole(10), pr) :
                  id \in {Str(<<"A">>), Str(<<"B">>)},
                  p \in {T100, Str(<<"x">>)},
                  pr \in {Liege, NaN}}]

\* Numeric columns read as text, with values that do not parse.
ProfileCoerce ==
    [maxRows |-> MaxRowsText, numbered |-> TRUE, postal |-> FALSE,
     rows |-> {[Cells(NaN, p, Str(<<" ", "1", "0">>), Liege)
                   EXCEPT !.number_rooms = r, !.facades = f] :
                  p \in {T100, Str(<<"x">>)},
                  r \in {Str(<<"3">>), Str(<<"x">>)},
                  f \in {Str(<<"2">>), Str(<<"1", " ", "2">>)}}]

Profiles ==
    {ProfileOutliers, ProfileOrder, ProfileRatio, ProfileIds, ProfileProvince,
     ProfileMixed, ProfileCoerce}

\* A column read from a file is numeric or text: it never mixes numbers and texts.
WellTyped(frame) ==
    \A col \in frame.columns :
        ~ \E i, j \in 1..Len(frame.rows) :
            frame.rows[i][col].t = "str" /\ frame.rows[j][col].t = "num"

\* The table of the drawn rows: the RangeIndex is the position, the
\* price_per_m2 cell is a placeholder until line 54 adds the column.
MakeFrame(p, rows) ==
    [columns |-> InputColumns \cup (IF p.postal THEN {"postal_code"} ELSE {}),
     rows |-> [i \in 1..Len(rows) |->
                 [idx |-> i,
                  property_id |-> IF p.numbered THEN Whole(i) ELSE rows[i].property_id,
                  price |-> rows[i].price,
                  living_area |-> rows[i].living_area,
                  number_rooms |-> rows[i].number_rooms,
                  facades |-> rows[i].facades,
                  province |-> rows[i].province,
                  postal_code |-> rows[i].postal_code,
                  price_per_m2 |-> NaN]]]

NoBounds == [lower |-> NaN, upper |-> NaN]

\* ------------------------------------------------------------ the machine

Init ==
    /\ \E p \in Profiles : \E n \in 0..p.maxRows :
         \E rows \in [1..n -> p.rows] :
            /\ input = MakeFrame(p, rows)
            /\ WellTyped(input)
    /\ df = input
    /\ pc = "strip"
    /\ iqrBounds = [price |-> NoBounds, living_area |-> NoBounds]
    /\ nanAsText \in BOOLEAN

StripStep ==
    /\ pc = "strip"
    /\ df' = StripWhitespace(df, nanAsText)
    /\ pc' = "dedup"
    /\ UNCHANGED <<input, iqrBounds, nanAsText>>

DedupStep ==
    /\ pc = "dedup"
    /\ df' = DropDuplicates(df)
    /\ pc' = "types"
    /\ UNCHANGED <<input, iqrBounds, nanAsText>>

TypesStep ==
    /\ pc = "types"
    /\ df' = FixDataTypes(df, nanAsText)
    /\ pc' = "province"
    /\ UNCHANGED <<input, iqrBounds, nanAsText>>

ProvinceStep ==
    /\ pc = "province"
    /\ df' = ProvinceFilter(df)
    /\ pc' = "ratio"
    /\ UNCHANGED <<input, iqrBounds, nanAsText>>

RatioStep ==
    /\ pc = "ratio"
    /\ df' = ComputePricePerM2(df)
    /\ pc' = "outliers_price"
    /\ UNCHANGED <<input, iqrBounds, nanAsText>>

OutliersPriceStep ==
    /\ pc = "outliers_price"
    /\ iqrBounds' = [iqrBounds EXCEPT !.price = IqrBounds(Column(df, "price"))]
    /\ df' = FilterColumn(df, "price")
    /\ pc' = "outliers_area"
    /\ UNCHANGED <<input, nanAsText>>

OutliersAreaStep ==
    /\ pc = "outliers_area"
    /\ iqrBounds' = [iqrBounds EXCEPT
                        !.living_area = IqrBounds(Column(df, "living_area"))]
    /\ df' = FilterColumn(df, "living_area")
    /\ pc' = "dropna"
    /\ UNCHANGED <<input, nanAsText>>

DropNaStep ==
    /\ pc = "dropna"
    /\ df' = DropNa(df, {"price", "living_area"})
    /\ pc' = "done"
    /\ UNCHANGED <<input, iqrBounds, nanAsText>>

Next ==
    \/ StripStep
    \/ DedupStep
    \/ TypesStep
    \/ ProvinceStep
    \/ RatioStep
    \/ OutliersPriceStep
    \/ OutliersAreaStep
    \/ DropNaStep

Spec == Init /\ [][Next]_vars

\* ------------------------------------------------------------ properties

\* The returned frame is the function of the argument the operators compose to.
ReturnsCleaned == pc = "done" => df = clean_immo_data(input, nanAsText)

\* The index labels of a frame's rows.
Idx(frame) == {frame.rows[i].idx : i \in 1..Len(frame.rows)}

\* A value as the specification reads it: trimmed, an empty text missing.
Trimmed(c) ==
    IF c.t = "str"
    THEN (IF Strip(c.s) = <<>> THEN NaN ELSE Str(Strip(c.s)))
    ELSE c

\* Null, empty or whitespace-only.
Missing(c) == IsNa(Trimmed(c))

\* The frame when deduplication runs, and when the outlier filters run.
Stripped == StripWhitespace(input, nanAsText)
Prep == Prepared(input, nanAsText)

StrictlyBelow(c, bound) == ~ RLe(bound.q, c.q)
StrictlyAbove(c, bound) == ~ RLe(c.q, bound.q)

\* C1: no input row whose province is null, empty or whitespace-only is in
\* the output, and every output row has a non-null, non-empty province.
C1_NoRowWithoutProvince ==
    pc = "done" =>
        \A i \in 1..Len(df.rows) :
            /\ ~ Missing(input.rows[df.rows[i].idx].province)
            /\ NotNa(df.rows[i].province)
            /\ df.rows[i].province.s # <<>>

\* C1 where astype(str) keeps a missing value missing: the filter is complete.
C1_HoldsWhenNaStaysMissing == nanAsText \/ C1_NoRowWithoutProvince

\* C2: every output row has a non-null price and living_area, each inside the
\* inlier interval [lower, upper] the pipeline computed for its column.
C2_OutputInsideBounds ==
    pc = "done" =>
        \A i \in 1..Len(df.rows) : \A col \in {"price", "living_area"} :
            /\ df.rows[i][col].t = "num"
            /\ NotNa(iqrBounds[col].lower) /\ NotNa(iqrBounds[col].upper)
            /\ ~ StrictlyBelow(df.rows[i][col], iqrBounds[col].lower)
            /\ ~ StrictlyAbove(df.rows[i][col], iqrBounds[col].upper)

\* C2's case: a row left the table for a price above the upper bound, and
\* another row stayed.
C2_Witness ==
    /\ pc = "done"
    /\ df.rows # <<>>
    /\ LET prep == Prep
       IN \E i \in 1..Len(prep.rows) :
             /\ prep.rows[i].idx \notin Idx(df)
             /\ NotNa(prep.rows[i].price)
             /\ StrictlyAbove(prep.rows[i].price, iqrBounds.price.upper)

\* C3: no two output rows share a non-null property_id, and an output row is
\* the first input row carrying its identifier, compared after trimming.
C3_FirstOccurrenceOnly ==
    pc = "done" =>
        /\ \A a, b \in 1..Len(df.rows) :
              a # b /\ NotNa(df.rows[a].property_id)
                  => df.rows[a].property_id # df.rows[b].property_id
        /\ \A a \in 1..Len(df.rows) :
              LET k == df.rows[a].idx
              IN NotNa(Trimmed(input.rows[k].property_id)) =>
                    \A j \in 1..(k - 1) :
                        Trimmed(input.rows[j].property_id)
                            # Trimmed(input.rows[k].property_id)

\* C3's case: two input rows carry one identifier, written differently; the
\* first is in the output and the second is not.
C3_Witness ==
    /\ pc = "done"
    /\ \E j, k \in 1..Len(input.rows) :
          /\ j < k
          /\ input.rows[j].property_id # input.rows[k].property_id
          /\ NotNa(Trimmed(input.rows[j].property_id))
          /\ Trimmed(input.rows[j].property_id) = Trimmed(input.rows[k].property_id)
          /\ j \in Idx(df)
          /\ k \notin Idx(df)

\* C4 as stated: price_per_m2 of every output row is price / living_area and
\* is never null.
C4_RatioNeverNull ==
    pc = "done" =>
        \A i \in 1..Len(df.rows) :
            LET row == df.rows[i]
            IN /\ NotNa(row.price_per_m2)
               /\ row.living_area.q[1] # 0 =>
                     /\ row.price_per_m2.t = "num"
                     /\ row.price_per_m2.q[1] * row.price.q[2] * row.living_area.q[1]
                          = row.price_per_m2.q[2] * row.price.q[1] * row.living_area.q[2]

\* C4 as amended: price_per_m2 of every output row whose living_area is not
\* zero is price / living_area, and is not null.
C4_RatioOfNonzeroArea ==
    pc = "done" =>
        \A i \in 1..Len(df.rows) :
            LET row == df.rows[i]
            IN row.living_area.q[1] # 0 =>
                  /\ row.price_per_m2.t = "num"
                  /\ row.price_per_m2.q[1] * row.price.q[2] * row.living_area.q[1]
                       = row.price_per_m2.q[2] * row.price.q[1] * row.living_area.q[2]

\* C4's case: an output row with a non-zero living_area and a ratio that is
\* neither its price nor its living_area.
C4_Witness ==
    /\ pc = "done"
    /\ \E i \in 1..Len(df.rows) :
          /\ df.rows[i].living_area.q[1] # 0
          /\ df.rows[i].price_per_m2 = Whole(10)
          /\ df.rows[i].price = Whole(100)

\* C5: the ratio of a row whose price or living_area is null, or whose
\* living_area is zero, is the null marker, when it is computed and in the
\* output.
C5_UndefinedRatioIsNull ==
    pc \in {"outliers_price", "done"} =>
        \A i \in 1..Len(df.rows) :
            LET row == df.rows[i]
            IN (IsNa(row.price) \/ IsNa(row.living_area) \/ row.living_area.q[1] = 0)
                  => IsNa(row.price_per_m2)

\* C6 as stated: every row whose property_id is null when deduplication runs
\* survives it.
C6_NullIdsAllSurvive ==
    pc = "types" =>
        \A i \in 1..Len(Stripped.rows) :
            IsNa(Stripped.rows[i].property_id) => Stripped.rows[i].idx \in Idx(df)

\* C6 as amended: the rows whose property_id is null when deduplication runs
\* are duplicates of one another: the first of them survives, the others are
\* dropped; and a row whose input property_id is null does not survive when
\* an earlier input row's property_id is null too.
C6_NullIdsKeepFirst ==
    pc = "types" =>
        /\ \A i \in 1..Len(Stripped.rows) :
              IsNa(Stripped.rows[i].property_id) =>
                  (Stripped.rows[i].idx \in Idx(df)
                      <=> \A j \in 1..(i - 1) : NotNa(Stripped.rows[j].property_id))
        /\ \A i \in 1..Len(input.rows) :
              /\ IsNa(input.rows[i].property_id)
              /\ \E j \in 1..(i - 1) : IsNa(input.rows[j].property_id)
              => input.rows[i].idx \notin Idx(df)

\* C6's case, both sentences at once: two rows whose property_id is null when
\* deduplication runs, the first kept and the second dropped; and two rows
\* whose input property_id is null and which reach deduplication as the text
\* "nan", the first kept and the second dropped.
C6_Witness ==
    /\ pc = "types"
    /\ \E i, j \in 1..Len(Stripped.rows) :
          /\ i < j
          /\ IsNa(Stripped.rows[i].property_id)
          /\ IsNa(Stripped.rows[j].property_id)
          /\ Stripped.rows[i].idx \in Idx(df)
          /\ Stripped.rows[j].idx \notin Idx(df)
    /\ \E i, j \in 1..Len(input.rows) :
          /\ i < j
          /\ IsNa(input.rows[i].property_id)
          /\ IsNa(input.rows[j].property_id)
          /\ NotNa(Stripped.rows[i].property_id)
          /\ NotNa(Stripped.rows[j].property_id)
          /\ input.rows[i].idx \in Idx(df)
          /\ input.rows[j].idx \notin Idx(df)

\* Whether a value of col passes the recorded bounds of col (inclusive).
Inlier(c, col) ==
    /\ NotNa(c)
    /\ ~ StrictlyBelow(c, iqrBounds[col].lower)
    /\ ~ StrictlyAbove(c, iqrBounds[col].upper)

\* The outlier example: prices 100000, 105000, 110000, 1000000, in thousands.
ExamplePrices == <<Whole(100), Whole(105), Whole(110), Whole(1000)>>

\* C7: a value of a filtered column becomes null exactly when it is strictly
\* below lower or strictly above upper, and is unchanged otherwise; a row
\* present before the filters whose price and living_area pass is in the
\* output; of the example prices only the last is excluded, the bounds being
\* Q1 - 1.5 IQR = -239.375 and Q3 + 1.5 IQR = 675.625.
C7_NullIffStrictlyOutside ==
    LET prep == Prep
        Masked(col) ==
            /\ Len(df.rows) = Len(prep.rows)
            /\ \A i \in 1..Len(df.rows) :
                  LET old == prep.rows[i][col]
                      new == df.rows[i][col]
                  IN /\ df.rows[i].idx = prep.rows[i].idx
                     /\ IsNa(old) => IsNa(new)
                     /\ NotNa(old) =>
                           /\ IsNa(new) <=> \/ StrictlyBelow(old, iqrBounds[col].lower)
                                            \/ StrictlyAbove(old, iqrBounds[col].upper)
                           /\ NotNa(new) => new = old
    IN /\ pc \in {"outliers_area", "dropna"} => Masked("price")
       /\ pc = "dropna" => Masked("living_area")
       /\ pc = "done" =>
             \A i \in 1..Len(prep.rows) :
                 Inlier(prep.rows[i].price, "price")
                     /\ Inlier(prep.rows[i].living_area, "living_area")
                     => prep.rows[i].idx \in Idx(df)
       /\ pc = "done" /\ Column(input, "price") = ExamplePrices =>
             /\ Idx(df) = {1, 2, 3}
             /\ iqrBounds.price.lower = Num(<<-1915, 8>>)
             /\ iqrBounds.price.upper = Num(<<5405, 8>>)

\* C7's case: the example table went through the filters.
C7_Witness ==
    /\ pc = "done"
    /\ Column(input, "price") = ExamplePrices
    /\ Idx(df) = {1, 2, 3}

\* A text that is no number: some character left after trimming is no digit.
Unparseable(c) ==
    c.t = "str" /\ \E k \in 1..Len(Strip(c.s)) : ~ IsDigit(Strip(c.s)[k])

\* The input with number_rooms and facades emptied.
WithoutRooms ==
    SetColumn(SetColumn(input, "number_rooms", [i \in 1..Len(input.rows) |-> NaN]),
              "facades", [i \in 1..Len(input.rows) |-> NaN])

\* C8: after coercion every value of the four numeric columns is a number or
\* null, null where the input text was no number; and the rows of the output
\* are those of the output for the same table with number_rooms and facades
\* emptied.
C8_UnparseableBecomesNull ==
    /\ pc \notin {"strip", "dedup", "types"} =>
          \A i \in 1..Len(df.rows) : \A col \in numeric_columns :
              /\ df.rows[i][col].t \in {"num", "nan"}
              /\ Unparseable(input.rows[df.rows[i].idx][col]) => IsNa(df.rows[i][col])
    /\ pc = "done" =>
          Idx(df) = Idx(clean_immo_data(WithoutRooms, nanAsText))

\* C8's case: an output row whose number_rooms or facades did not parse.
C8_Witness ==
    /\ pc = "done"
    /\ \E i \in 1..Len(df.rows) :
          /\ Unparseable(input.rows[df.rows[i].idx].number_rooms)
          /\ Unparseable(input.rows[df.rows[i].idx].facades)
          /\ IsNa(df.rows[i].number_rooms)
          /\ IsNa(df.rows[i].facades)

\* The rows of a frame whose price passes the recorded price bounds.
PriceInliers(frame) ==
    [frame EXCEPT !.rows =
        FilterRows(frame.rows, [i \in 1..Len(frame.rows) |-> Inlier(frame.rows[i].price, "price")], 1)]

\* C9: the bounds of price and of living_area are those of the column as it
\* stands after deduplication and the province filter, rows nulled by the
\* price filter included, rows dropped before excluded.
C9_BoundsOverPreparedColumn ==
    /\ pc \in {"outliers_area", "dropna", "done"} =>
          iqrBounds.price = IqrBounds(Column(Prep, "price"))
    /\ pc \in {"dropna", "done"} =>
          iqrBounds.living_area = IqrBounds(Column(Prep, "living_area"))

\* C9's case: a row was dropped before the filters and a row was nulled by
\* the price filter, and leaving either in or out would have moved the
\* living_area bounds.
C9_Witness ==
    /\ pc = "done"
    /\ Len(Prep.rows) < Len(input.rows)
    /\ \E i \in 1..Len(Prep.rows) : ~ Inlier(Prep.rows[i].price, "price")
    /\ iqrBounds.living_area
          # IqrBounds(Column(PriceInliers(Prep), "living_area"))
    /\ iqrBounds.living_area
          # IqrBounds(Column(FixDataTypes(Stripped, nanAsText), "living_area"))

\* A number cell that is null once coerced.
NullNumber(c) == IsNa(c) \/ Unparseable(c) \/ Missing(c)

\* The identifiers of the output, as the input wrote them, trimmed.
OutputIds == {Trimmed(input.rows[k].property_id) : k \in Idx(df)}

\* C10: when the first input row of an identifier lacks a province, or has a
\* null or out-of-bounds price or living_area, no row with that identifier is
\* in the output.
C10_NoPromotion ==
    pc = "done" =>
        \A k \in 1..Len(input.rows) :
            LET row == input.rows[k]
                first == \A j \in 1..(k - 1) :
                            Trimmed(input.rows[j].property_id) # Trimmed(row.property_id)
                invalid ==
                    \/ Missing(row.province)
                    \/ NullNumber(row.price)
                    \/ NullNumber(row.living_area)
                    \/ ~ Inlier(ToNumeric(Trimmed(row.price)), "price")
                    \/ ~ Inlier(ToNumeric(Trimmed(row.living_area)), "living_area")
            IN NotNa(Trimmed(row.property_id)) /\ first /\ invalid
                  => Trimmed(row.property_id) \notin OutputIds

\* C10 where astype(str) keeps a missing value missing.
C10_HoldsWhenNaStaysMissing == nanAsText \/ C10_NoPromotion

====
